---- MODULE Spec2Model ----
(***************************************************************************)
(* Model of flight_planner.py: the pin-hole Camera parameter bag and the   *)
(* FlightPlanner solver that derives photo scale, swath, gsd, height, base *)
(* length, strip offset and ground area from it.                           *)
(*                                                                         *)
(* Numbers are exact rationals <<n, d>> in lowest terms with d >= 0.       *)
(* d = 0 encodes the non-finite results numpy produces when a numpy scalar *)
(* is divided by zero: <<1,0>> = inf, <<-1,0>> = -inf, <<0,0>> = nan.      *)
(* Floating-point rounding is not modelled.                                *)
(*                                                                         *)
(* Every Python value carries the run-time type that decides how the       *)
(* operators of the source behave on it:                                   *)
(*   "None"     None (also: key absent from the dict, dict.get -> None)    *)
(*   "py"       a Python int/float                                         *)
(*   "np"       a numpy scalar (an element of an ndarray, or derived of it)*)
(*   "tuple"    a Python 2-tuple of Python numbers                         *)
(*   "ndarray"  a numpy array of two elements                              *)
(*   "TypeError", "ZeroDivisionError", "AttributeError": the exception an  *)
(*              expression raised instead of producing a value             *)
(***************************************************************************)
EXTENDS Integers, Sequences, FiniteSets, TLC

VARIABLES
    cam,       \* Camera._parameters
    supplied,  \* history: sensor_size was given explicitly (constructor or setter)
    plan,      \* FlightPlanner._plan
    status,    \* history: "fresh" (as constructed), "default"/"gsd"/"height"/"both"
               \* (left by a completed compute() that took this branch), "dirty"
    call,      \* history: the latest call, its argument, outcome and the state before it
    trip       \* history: progress through scale_from_height, calculate_gsd,
               \* scale_from_gsd, calculate_height

vars == <<cam, supplied, plan, status, call, trip>>

----------------------------------------------------------------------------
(* Bounds of the model *)

MaxHeight == 2
MaxGsd == 1
MaxFocal == 1
MaxDim == 2
MaxPixel == 1
MaxFps == 2
MaxExp == 3

(* Program constants *)

DefaultForward == 60
DefaultSide == 40
DefaultHeight == 120

----------------------------------------------------------------------------
(* Exact rational arithmetic *)

Abs(x) == IF x < 0 THEN -x ELSE x

Sgn(x) == IF x < 0 THEN -1 ELSE IF x > 0 THEN 1 ELSE 0

RECURSIVE GCD(_, _)
GCD(a, b) == IF b = 0 THEN a ELSE GCD(b, a % b)

Norm(n, d) ==
    IF d = 0 THEN <<Sgn(n), 0>>
    ELSE LET g == GCD(Abs(n), Abs(d))
         IN  <<Sgn(d) * (n \div g), Abs(d) \div g>>

QMul(a, b) == Norm(a[1] * b[1], a[2] * b[2])
QDiv(a, b) == Norm(a[1] * b[2], a[2] * b[1])
QSub(a, b) == Norm(a[1] * b[2] - b[1] * a[2], a[2] * b[2])
QLt(a, b) == a[1] * b[2] < b[1] * a[2]
QIsZero(a) == a[1] = 0 /\ a[2] # 0

----------------------------------------------------------------------------
(* Python / numpy values *)

None == [k |-> "None", v |-> <<>>]
Py(n) == [k |-> "py", v |-> <<n, 1>>]
PyQ(n, d) == [k |-> "py", v |-> Norm(n, d)]
Tuple(x, y) == [k |-> "tuple", v |-> <<x, 1, y, 1>>]
NdArray(x, y) == [k |-> "ndarray", v |-> <<x, 1, y, 1>>]
Raise(e) == [k |-> e, v |-> <<>>]

ErrKinds == {"TypeError", "ZeroDivisionError", "AttributeError"}
IsErr(x) == x.k \in ErrKinds
IsNone(x) == x.k = "None"
IsScalar(x) == x.k \in {"py", "np"}
IsVec(x) == x.k \in {"tuple", "ndarray"}

(* the two components of a 2-vector, as rationals *)
Elem(x, i) == IF i = 0 THEN <<x.v[1], x.v[2]>> ELSE <<x.v[3], x.v[4]>>

(* numpy takes over a scalar operation as soon as one operand is a numpy scalar *)
ScalarKind(a, b) == IF a.k = "np" \/ b.k = "np" THEN "np" ELSE "py"

(* a * b, with a scalar on the left.  float * tuple is Python's sequence      *)
(* repetition with a non-int count: TypeError.  A numpy scalar or an ndarray  *)
(* on either side makes it numpy's element-wise product.                      *)
Mul(a, b) ==
    IF IsErr(a) THEN a
    ELSE IF IsErr(b) THEN b
    ELSE IF IsScalar(a) /\ IsScalar(b)
         THEN [k |-> ScalarKind(a, b), v |-> QMul(a.v, b.v)]
    ELSE IF IsScalar(a) /\ IsVec(b) /\ (a.k = "np" \/ b.k = "ndarray")
         THEN [k |-> "ndarray",
               v |-> QMul(a.v, Elem(b, 0)) \o QMul(a.v, Elem(b, 1))]
    ELSE Raise("TypeError")

(* a / b on scalars: Python raises ZeroDivisionError, numpy warns and yields  *)
(* inf or nan.                                                                *)
Div(a, b) ==
    IF IsErr(a) THEN a
    ELSE IF IsErr(b) THEN b
    ELSE IF ~(IsScalar(a) /\ IsScalar(b)) THEN Raise("TypeError")
    ELSE IF ScalarKind(a, b) = "py" /\ QIsZero(b.v) THEN Raise("ZeroDivisionError")
    ELSE [k |-> ScalarKind(a, b), v |-> QDiv(a.v, b.v)]

Sub(a, b) ==
    IF IsErr(a) THEN a
    ELSE IF IsErr(b) THEN b
    ELSE IF ~(IsScalar(a) /\ IsScalar(b)) THEN Raise("TypeError")
    ELSE [k |-> ScalarKind(a, b), v |-> QSub(a.v, b.v)]

(* a < b on scalars; the result is a BOOLEAN, or the exception raised *)
Lt(a, b) ==
    IF IsErr(a) THEN a
    ELSE IF IsErr(b) THEN b
    ELSE IF ~(IsScalar(a) /\ IsScalar(b)) THEN Raise("TypeError")
    ELSE [k |-> "bool", v |-> IF QLt(a.v, b.v) THEN <<1>> ELSE <<0>>]

(* x[i]: None is not subscriptable; a tuple yields its Python number, an      *)
(* ndarray a numpy scalar.                                                    *)
Index(x, i) ==
    IF IsErr(x) THEN x
    ELSE IF x.k = "tuple" THEN [k |-> "py", v |-> Elem(x, i)]
    ELSE IF x.k = "ndarray" THEN [k |-> "np", v |-> Elem(x, i)]
    ELSE Raise("TypeError")

(* Python's == on numbers and arrays compares values, not run-time types *)
SameValue(a, b) == a.v = b.v

----------------------------------------------------------------------------
(* Camera: the _parameters dict.  A key that is absent reads as None. *)

(* Camera.__init__ on the keyword arguments kw: sensor_size is derived once,  *)
(* as pixel_size * np.array(image_size), when it was not supplied.            *)
AsArray(x) == IF IsVec(x) THEN [k |-> "ndarray", v |-> x.v] ELSE x

CameraInit(kw) ==
    IF IsNone(kw.sensor_size)
    THEN [kw EXCEPT !.sensor_size = Mul(kw.pixel_size, AsArray(kw.image_size))]
    ELSE kw

(* The construction completes: deriving sensor_size did not raise, and a      *)
(* supplied sensor_size is not an ndarray (an ndarray == None is an array,    *)
(* whose truth value raises ValueError in the if of __init__).                *)
CameraConstructs(kw) ==
    /\ kw.sensor_size.k # "ndarray"
    /\ ~IsErr(CameraInit(kw).sensor_size)

(* A camera call's outcome: the dict after it and the exception raised *)
C(c) == [cam |-> c, err |-> "none"]

(* the exposure setter.  Line 149 uses the non-short-circuit &, so 1/fps is   *)
(* evaluated even when fps is None.  The class defines no setter for the      *)
(* property max_fps (the setter decorated with @max_fps.setter is bound to    *)
(* the name fps), so the assignment self.max_fps = ... raises AttributeError. *)
(* The store of line 159 runs after every branch that did not raise.          *)
set_exposure(c, exposure) ==
    LET fps == c.max_fps
        test == Lt(exposure, Div(Py(1), fps))
        stored == [c EXCEPT !.exposure = exposure]
    IN  IF IsErr(test) THEN [cam |-> c, err |-> test.k]
        ELSE IF ~IsNone(fps) /\ test.v = <<1>> THEN C(stored)
        ELSE IF IsNone(fps) THEN [cam |-> c, err |-> "AttributeError"]
        ELSE C(stored)

(* the setter bound to the name fps writes the key 'fps', not 'max_fps' *)
set_fps(c, fps) == C([c EXCEPT !.fps = fps])

set_pixel_size(c, pixel_size) == C([c EXCEPT !.pixel_size = pixel_size])

set_image_size(c, image_size) == C([c EXCEPT !.image_size = image_size])

set_sensor_size(c, sensor_size) == C([c EXCEPT !.sensor_size = sensor_size])

set_focal_length(c, f) == C([c EXCEPT !.f = f])

----------------------------------------------------------------------------
(* FlightPlanner: the _plan dict, and the methods as functions of a machine   *)
(* m = [plan, err]: the dict so far and the exception raised so far ("none"   *)
(* while the call is still running).  A raised exception ends the call: every *)
(* later statement is skipped and what was written stays written.             *)

EmptyPlan ==
    [height |-> None, gsd |-> None, forward_overlap |-> None, side_overlap |-> None,
     photo_scale |-> None, swath |-> None, base_length |-> None,
     strip_offset |-> None, ground_area |-> None]

M(p) == [plan |-> p, err |-> "none"]

(* self._plan[key] = value, where evaluating value may have raised *)
Store(m, key, value) ==
    IF m.err # "none" THEN m
    ELSE IF IsErr(value) THEN [m EXCEPT !.err = value.k]
    ELSE [m EXCEPT !.plan[key] = value]

calculate_photo_area(m, c) ==
    Store(m, "ground_area", Mul(Index(m.plan.swath, 0), Index(m.plan.swath, 1)))

(* a plausible slip: scaling the swath array in place instead of copying *)
calculate_base_inplace(m, c) ==
    LET B == Mul(Index(m.plan.swath, 1),
                 Sub(Py(1), Div(m.plan.forward_overlap, Py(100))))
    IN  IF m.err # "none" \/ IsErr(B) THEN Store(m, "base_length", B)
        ELSE Store(Store(m, "swath",
                         [k |-> "ndarray", v |-> Elem(m.plan.swath, 0) \o B.v]),
                   "base_length", B)

calculate_base(m, c) ==
    Store(m, "base_length",
          Mul(Index(m.plan.swath, 1),
              Sub(Py(1), Div(m.plan.forward_overlap, Py(100)))))

calculate_strip_offset(m, c) ==
    Store(m, "strip_offset",
          Mul(Index(m.plan.swath, 0),
              Sub(Py(1), Div(m.plan.side_overlap, Py(100)))))

scale_from_height(m, c, h) ==
    LET m1 == Store(m, "photo_scale", Div(h, Div(c.f, Py(1000))))
    IN  Store(m1, "swath", Mul(m1.plan.photo_scale, c.sensor_size))

scale_from_gsd(m, c, gsd) ==
    LET S == Mul(Div(gsd, Py(100)), c.image_size)
        ps == Div(Index(S, 0), Index(c.sensor_size, 0))
    IN  Store(Store(m, "photo_scale", ps), "swath", S)

calculate_gsd(m, c) ==
    LET S == Mul(m.plan.photo_scale, Index(c.sensor_size, 0))
    IN  Store(m, "gsd", Div(Mul(Py(100), S), Index(c.image_size, 0)))

(* the argument gsd is not used by the body *)
calculate_height(m, c, gsd) ==
    Store(m, "height", Div(Mul(m.plan.photo_scale, c.f), Py(1000)))

(* self.gsd_from_height(h): FlightPlanner defines no such attribute, so the   *)
(* attribute lookup raises before anything is called.                         *)
gsd_from_height(m, c, h) ==
    IF m.err # "none" THEN m ELSE [m EXCEPT !.err = "AttributeError"]

(* which branch of compute() a plan takes *)
Branch(p) ==
    IF IsNone(p.height) /\ IsNone(p.gsd) THEN "default"
    ELSE IF IsNone(p.height) THEN "gsd"
    ELSE IF IsNone(p.gsd) THEN "height"
    ELSE "both"

compute(p, c) ==
    LET p1 == IF IsNone(p.forward_overlap)
              THEN [p EXCEPT !.forward_overlap = Py(DefaultForward)] ELSE p
        p2 == IF IsNone(p1.side_overlap)
              THEN [p1 EXCEPT !.side_overlap = Py(DefaultSide)] ELSE p1
        h == p2.height
        gsd == p2.gsd
        m3 == CASE Branch(p2) = "default" -> gsd_from_height(M(p2), c, Py(DefaultHeight))
                [] Branch(p2) = "gsd" ->
                       calculate_height(scale_from_gsd(M(p2), c, gsd), c, gsd)
                [] Branch(p2) = "height" ->
                       calculate_gsd(scale_from_height(M(p2), c, h), c)
                [] OTHER -> M(p2)
    IN  calculate_photo_area(calculate_strip_offset(calculate_base(m3, c), c), c)

----------------------------------------------------------------------------
(* Inputs *)

Heights == {Py(h) : h \in 1..MaxHeight}
Gsds == {Py(g) : g \in 1..MaxGsd}
Overlaps == {Py(50), Py(100)}
Focals == {None} \cup {Py(f) : f \in 0..MaxFocal}
Pixels == {Py(x) : x \in 1..MaxPixel}
ImageSizes == {Tuple(x, 1) : x \in 0..MaxDim} \cup {NdArray(MaxDim, 1)}
SensorSizes == {None, Tuple(1, 1)}

CameraKwargs(fs, pxs, ims, sss, fpss, exps) ==
    {kw \in [f : fs, pixel_size : pxs, image_size : ims, sensor_size : sss,
             max_fps : fpss, exposure : exps, fps : {None}] : CameraConstructs(kw)}

PlanKwargs ==
    {[EmptyPlan EXCEPT !.height = h, !.gsd = g, !.forward_overlap = fo, !.side_overlap = so] :
        h \in Heights \cup {None}, g \in Gsds \cup {None},
        fo \in Overlaps \cup {None}, so \in Overlaps \cup {None}}

NoTrip == [stage |-> 0, h |-> None, m |-> None]

Call(op, arg, err) ==
    [op |-> op, arg |-> arg, err |-> err,
     planBefore |-> plan, camBefore |-> cam, statusBefore |-> status]

Positive(x) == x.k = "py" /\ x.v[1] > 0 /\ x.v[2] > 0
PositiveVec(x) == IsVec(x) /\ x.v[1] > 0 /\ x.v[2] > 0 /\ x.v[3] > 0 /\ x.v[4] > 0

(* every geometric parameter present and positive *)
ValidCamera(c) ==
    /\ Positive(c.f)
    /\ Positive(c.pixel_size)
    /\ PositiveVec(c.image_size)
    /\ PositiveVec(c.sensor_size)

----------------------------------------------------------------------------
(* The flight planner: a camera, a plan built from keyword arguments, and the *)
(* calls a client makes on it.                                                *)

Init ==
    /\ \E kw \in CameraKwargs(Focals, Pixels, ImageSizes, SensorSizes, {None}, {None}) :
          /\ cam = CameraInit(kw)
          /\ supplied = ~IsNone(kw.sensor_size)
    /\ plan \in PlanKwargs
    /\ status = "fresh"
    /\ call = [op |-> "init", arg |-> None, err |-> "none",
               planBefore |-> plan, camBefore |-> cam, statusBefore |-> "fresh"]
    /\ trip = NoTrip

(* the outcome m of a call that ends in compute() *)
Computed(op, arg, p, m) ==
    /\ plan' = m.plan
    /\ status' = IF m.err = "none" THEN Branch(p) ELSE "dirty"
    /\ call' = Call(op, arg, m.err)
    /\ trip' = NoTrip
    /\ UNCHANGED <<cam, supplied>>

Compute ==
    Computed("compute", None, plan, compute(plan, cam))

SetHeight ==
    \E h \in Heights :
        LET p == [plan EXCEPT !.height = h]
        IN  Computed("height", h, p, compute(p, cam))

SetGsd ==
    \E g \in Gsds :
        LET p == [plan EXCEPT !.gsd = g]
        IN  Computed("gsd", g, p, compute(p, cam))

SetSideOverlap ==
    \E so \in Overlaps :
        LET p == [plan EXCEPT !.side_overlap = so]
        IN  Computed("side_overlap", so, p, compute(p, cam))

SetForwardOverlap ==
    \E fo \in Overlaps :
        LET p == [plan EXCEPT !.forward_overlap = fo]
        IN  Computed("forward_overlap", fo, p, compute(p, cam))

(* the outcome m of a direct call of one derivation method *)
Called(op, arg, m, t) ==
    /\ plan' = m.plan
    /\ status' = "dirty"
    /\ call' = Call(op, arg, m.err)
    /\ trip' = IF m.err = "none" THEN t ELSE NoTrip
    /\ UNCHANGED <<cam, supplied>>

(* The derivation methods are called directly only as the round trip        *)
(* scale_from_height, calculate_gsd, scale_from_gsd, calculate_height on a    *)
(* plan as constructed.                                                       *)
ScaleFromHeight ==
    \E h \in Heights :
        /\ status = "fresh"
        /\
           LET m == scale_from_height(M(plan), cam, h)
           IN  Called("scale_from_height", h, m,
                      [stage |-> 1, h |-> h, m |-> m.plan.photo_scale])

CalculateGsd ==
    /\ trip.stage = 1
    /\ Called("calculate_gsd", None, calculate_gsd(M(plan), cam),
              [trip EXCEPT !.stage = 2])

(* called with the gsd the plan holds *)
ScaleFromGsd ==
    /\ trip.stage = 2
    /\ Called("scale_from_gsd", plan.gsd, scale_from_gsd(M(plan), cam, plan.gsd),
              [trip EXCEPT !.stage = 3])

CalculateHeight ==
    /\ trip.stage = 3
    /\ Called("calculate_height", plan.gsd, calculate_height(M(plan), cam, plan.gsd),
              [trip EXCEPT !.stage = 4])

Next ==
    \/ Compute
    \/ SetHeight
    \/ SetGsd
    \/ SetSideOverlap
    \/ SetForwardOverlap
    \/ ScaleFromHeight
    \/ CalculateGsd
    \/ ScaleFromGsd
    \/ CalculateHeight

Spec == Init /\ [][Next]_vars

----------------------------------------------------------------------------
(* The camera on its own: constructed from keyword arguments, then changed    *)
(* through its setters.                                                       *)

Rates == {Py(r) : r \in 1..MaxFps}
Exposures == {PyQ(1, e) : e \in 1..MaxExp}
PixelInputs == {Py(x) : x \in 1..(MaxPixel + 1)}

InitCam ==
    /\ \E kw \in CameraKwargs({Py(MaxFocal)}, Pixels, ImageSizes, SensorSizes,
                              Rates \cup {None}, Exposures \cup {None}) :
          /\ cam = CameraInit(kw)
          /\ supplied = ~IsNone(kw.sensor_size)
    /\ plan = EmptyPlan
    /\ status = "fresh"
    /\ call = [op |-> "init", arg |-> None, err |-> "none",
               planBefore |-> plan, camBefore |-> cam, statusBefore |-> "fresh"]
    /\ trip = NoTrip

CamCalled(op, arg, r) ==
    /\ cam' = r.cam
    /\ call' = Call(op, arg, r.err)
    /\ UNCHANGED <<plan, status, trip>>

SetExposure ==
    \E e \in Exposures :
        CamCalled("exposure", e, set_exposure(cam, e)) /\ UNCHANGED supplied

SetFps ==
    \E r \in Rates :
        CamCalled("fps", r, set_fps(cam, r)) /\ UNCHANGED supplied

SetPixelSize ==
    \E x \in PixelInputs :
        CamCalled("pixel_size", x, set_pixel_size(cam, x)) /\ UNCHANGED supplied

SetImageSize ==
    \E v \in ImageSizes :
        CamCalled("image_size", v, set_image_size(cam, v)) /\ UNCHANGED supplied

SetSensorSize ==
    \E v \in SensorSizes \ {None} :
        CamCalled("sensor_size", v, set_sensor_size(cam, v)) /\ supplied' = TRUE

SetFocalLength ==
    \E f \in Focals :
        CamCalled("focal_length", f, set_focal_length(cam, f)) /\ UNCHANGED supplied

NextCam ==
    \/ SetExposure
    \/ SetFps
    \/ SetPixelSize
    \/ SetImageSize
    \/ SetSensorSize
    \/ SetFocalLength

SpecCam == InitCam /\ [][NextCam]_vars

----------------------------------------------------------------------------
(* What the formulas of the planner are, on rationals: the values the claims  *)
(* below compare the plan against.                                            *)

Q(n) == <<n, 1>>
VecOf(x, y) == x \o y
ScaleOf(h, c) == QDiv(h, QDiv(c.f.v, Q(1000)))
SwathOf(scale, c) ==
    VecOf(QMul(scale, Elem(c.sensor_size, 0)), QMul(scale, Elem(c.sensor_size, 1)))
Remainder(overlap) == QSub(Q(1), QDiv(overlap, Q(100)))

(* base_length, strip_offset and ground_area of p follow from p's swath and overlaps *)
SpacingFromSwath(p) ==
    /\ IsVec(p.swath) /\ IsScalar(p.forward_overlap) /\ IsScalar(p.side_overlap)
    /\ p.base_length.v = QMul(Elem(p.swath, 1), Remainder(p.forward_overlap.v))
    /\ p.strip_offset.v = QMul(Elem(p.swath, 0), Remainder(p.side_overlap.v))
    /\ p.ground_area.v = QMul(Elem(p.swath, 0), Elem(p.swath, 1))

(* every derived field of p follows from the height h *)
DerivedFromHeight(p, c, h) ==
    /\ p.photo_scale.v = ScaleOf(h, c)
    /\ p.swath.v = SwathOf(ScaleOf(h, c), c)
    /\ SpacingFromSwath(p)

PlanKeys == DOMAIN EmptyPlan
SamePlan(p, q) == \A key \in PlanKeys : SameValue(p[key], q[key])

Settled == {"default", "gsd", "height", "both"}
ComputeCalls == {"compute", "height", "gsd", "side_overlap", "forward_overlap"}
TripCalls == {"scale_from_height", "calculate_gsd", "scale_from_gsd", "calculate_height"}

----------------------------------------------------------------------------
(* C1: for a valid camera and a plan left by a completed compute() on a      *)
(* height-only input, assigning a different height h2 through the height     *)
(* setter completes and leaves photo_scale = h2/(f/1000), swath =            *)
(* photo_scale * sensor_size, and base_length, strip_offset, ground_area     *)
(* derived from that swath: nothing computed from the old height remains.    *)
C1_HeightSetterRecomputes ==
    (/\ call.op = "height"
     /\ call.statusBefore = "height"
     /\ ValidCamera(cam)
     /\ ~SameValue(call.arg, call.planBefore.height))
    => (/\ call.err = "none"
        /\ SameValue(plan.height, call.arg)
        /\ DerivedFromHeight(plan, cam, call.arg.v))

(* C2: for a valid camera, compute() on a plan with neither height nor gsd   *)
(* completes and leaves height = 120 with every derived field computed from  *)
(* that height.                                                              *)
C2_DefaultHeight ==
    (/\ call.op = "compute"
     /\ Branch(call.planBefore) = "default"
     /\ ValidCamera(cam))
    => (/\ call.err = "none"
        /\ plan.height.v = Q(DefaultHeight)
        /\ IsScalar(plan.gsd)
        /\ DerivedFromHeight(plan, cam, Q(DefaultHeight)))

(* C4: when compute(), called directly or through an input setter, raises,   *)
(* every derived field of the plan has the value it had before the call.     *)
DerivedKeys == {"photo_scale", "swath", "base_length", "strip_offset", "ground_area"}

C4_FailedComputeLeavesDerived ==
    (call.op \in ComputeCalls /\ call.err # "none")
    => (/\ \A key \in DerivedKeys : plan[key] = call.planBefore[key]
        /\ call.op # "gsd" => plan.gsd = call.planBefore.gsd
        /\ call.op # "height" => plan.height = call.planBefore.height)

(* C5: for a valid camera, compute() on a plan as constructed with both      *)
(* height and gsd completes, leaves height and gsd as given and sets         *)
(* base_length, strip_offset and ground_area from a resolved swath.          *)
C5_BothKnownResolves ==
    (/\ call.op = "compute"
     /\ call.statusBefore = "fresh"
     /\ Branch(call.planBefore) = "both"
     /\ ValidCamera(cam))
    => (/\ call.err = "none"
        /\ plan.height = call.planBefore.height
        /\ plan.gsd = call.planBefore.gsd
        /\ SpacingFromSwath(plan))

(* C6: for a valid camera, compute() on a plan in which only gsd is set      *)
(* completes with swath = (gsd/100) * image_size, photo_scale = swath[0] /   *)
(* sensor_size[0] and height = photo_scale * (f/1000).                       *)
C6_GsdOnlyResolves ==
    (/\ call.op = "compute"
     /\ call.statusBefore = "fresh"
     /\ Branch(call.planBefore) = "gsd"
     /\ ValidCamera(cam))
    => (/\ call.err = "none"
        /\ LET g == QDiv(call.planBefore.gsd.v, Q(100))
               S == VecOf(QMul(g, Elem(cam.image_size, 0)), QMul(g, Elem(cam.image_size, 1)))
               scale == QDiv(<<S[1], S[2]>>, Elem(cam.sensor_size, 0))
           IN  /\ plan.swath.v = S
               /\ plan.photo_scale.v = scale
               /\ plan.height.v = QMul(scale, QDiv(cam.f.v, Q(1000))))

(* C7: for a valid camera, compute() called on a plan left by a completed    *)
(* compute(), with nothing changed in between, completes and leaves every    *)
(* field of the plan equal to its value before the call.                     *)
C7_ComputeIdempotent ==
    (/\ call.op = "compute"
     /\ call.statusBefore \in Settled
     /\ ValidCamera(cam))
    => (call.err = "none" /\ SamePlan(plan, call.planBefore))

(* a second compute() has run on a plan that a height-only compute() resolved *)
C7_Witness ==
    /\ call.op = "compute"
    /\ call.statusBefore = "height"
    /\ ValidCamera(cam)
    /\ call.err = "none"
    /\ QLt(Q(0), plan.base_length.v)

(* C9: for a valid camera and a positive height h, scale_from_height(h),     *)
(* calculate_gsd(), scale_from_gsd(plan gsd), calculate_height() all         *)
(* complete, the plan's height is h again and scale_from_gsd wrote the       *)
(* photo_scale that scale_from_height wrote.                                 *)
C9_RoundTrip ==
    ValidCamera(cam)
    => (/\ call.op \in TripCalls => call.err = "none"
        /\ trip.stage = 4 => (/\ SameValue(plan.height, trip.h)
                              /\ SameValue(plan.photo_scale, trip.m)))

(* The round trip does hold, exactly, on every valid camera whose            *)
(* sensor_size is an ndarray, which is every camera whose sensor_size was    *)
(* derived by the constructor.                                               *)
RoundTripOnArraySensor ==
    (ValidCamera(cam) /\ cam.sensor_size.k = "ndarray")
    => (/\ call.op \in TripCalls => call.err = "none"
        /\ trip.stage = 4 => (/\ SameValue(plan.height, trip.h)
                              /\ SameValue(plan.photo_scale, trip.m)))

RoundTripDone == trip.stage = 4 /\ ValidCamera(cam) /\ cam.image_size.k = "tuple"

----------------------------------------------------------------------------
(* C3: with max_fps set, the exposure setter called with e such that not     *)
(* e < 1/max_fps leaves the stored exposure unchanged, so after a call of    *)
(* the setter a stored exposure is below 1/max_fps.                          *)
C3_ExposureRejected ==
    (call.op = "exposure" /\ IsScalar(call.camBefore.max_fps))
    => (/\ ~QLt(call.arg.v, QDiv(Q(1), call.camBefore.max_fps.v))
            => cam.exposure = call.camBefore.exposure
        /\ IsScalar(cam.exposure)
            => QLt(cam.exposure.v, QDiv(Q(1), cam.max_fps.v)))

(* C8: a camera constructed without sensor_size, with positive pixel_size    *)
(* and image_size, has sensor_size = pixel_size * image_size after           *)
(* construction and after every call of the pixel_size and image_size        *)
(* setters.                                                                  *)
C8_SensorSizeTracksInputs ==
    (~supplied /\ Positive(cam.pixel_size) /\ PositiveVec(cam.image_size))
    => cam.sensor_size.v = VecOf(QMul(cam.pixel_size.v, Elem(cam.image_size, 0)),
                                 QMul(cam.pixel_size.v, Elem(cam.image_size, 1)))

(* C10: with max_fps unset, the exposure setter called with a positive e     *)
(* completes, stores exposure = e and sets max_fps = 1/e.                    *)
C10_ExposureBootstrapsRate ==
    (call.op = "exposure" /\ IsNone(call.camBefore.max_fps) /\ Positive(call.arg))
    => (/\ call.err = "none"
        /\ cam.exposure = call.arg
        /\ IsScalar(cam.max_fps)
        /\ cam.max_fps.v = QDiv(Q(1), call.arg.v))

====
